---- MODULE Spec2Model ----
(***************************************************************************)
(* Model of scripts/fetch_claude_docs.py: the documentation mirror that    *)
(* discovers pages of two sites plus a changelog, fetches and validates    *)
(* them, writes changed files, prunes files it no longer fetched and       *)
(* saves a manifest.                                                       *)
(*                                                                         *)
(* Strings the program computes on (paths, filenames) are sequences of     *)
(* one-character strings, so that suffix tests, stripping and replacing    *)
(* are computed as the code computes them.  A fetched text is a record of  *)
(* the features the program reads from it.  Time is a logical clock that   *)
(* advances once per run.                                                  *)
(***************************************************************************)
EXTENDS Naturals, Sequences, FiniteSets, TLC

VARIABLES
    disk,            \* docs directory: filename -> content of each existing document file
    manifest_file,   \* docs_manifest.json on disk: [exists, files]
    pc,              \* position of the process in main(), or idle / exited / crashed
    runs,            \* number of runs started so far
    now,             \* datetime.now() of the current run (logical clock)
    manifest,        \* main: files of the manifest loaded at run start
    new_manifest,    \* main: new_manifest["files"]
    fetched_files,   \* main: fetched_files
    successful,      \* main: successful
    failed,          \* main: failed
    failed_pages,    \* main: failed_pages
    total_discovered,\* main: total_discovered
    docs,            \* main: claude_code_docs / platform_docs of the source being processed
    idx,             \* main: position in docs (the enumerate index i)
    files_to_remove, \* cleanup_old_files: files still to be visited by its loop
    exit_status,     \* process exit status of the last finished run
    saved_meta,      \* fetch_metadata written by this run's save_manifest
    trace,           \* history: what this run discovered and received, in order
    expect,          \* history: rest of the previous complete run's trace, while this run repeats it
    same,            \* history: this run has so far received exactly what the previous complete run did
    written,         \* history: filenames save_markdown_file wrote in this run
    deleted,         \* history: filenames cleanup_old_files unlinked in this run
    saves,           \* history: times save_manifest wrote the manifest file in this run
    warned,          \* log: page names the last step warned about as unknown
    fetch_call,      \* the last direct call of a fetch function (specification SpecFetch)
    direct_call      \* the last direct call of another function, or the migration
                     \* script at work: [fn, args, result]

vars == <<disk, manifest_file, saves, pc, runs, now, manifest, new_manifest, fetched_files,
          successful, failed, failed_pages, total_discovered, docs, idx,
          files_to_remove, exit_status, saved_meta, trace, expect, same, written,
          deleted, fetch_call, direct_call, warned>>

run_vars == <<manifest, new_manifest, fetched_files, successful, failed, failed_pages,
              total_discovered, docs, idx, files_to_remove>>

-----------------------------------------------------------------------------
(* Bounds of the model *)

MaxRuns == 2            \* runs of main() in one behaviour
MaxCodeLinks == 1       \* links the code.claude.com link list holds
MaxPlatformLinks == 2   \* links the platform.claude.com link list holds
MaxPathLen == 4         \* characters of a path handed to url_to_safe_filename, its ending apart
MaxMarkedLines == 4     \* lines with markdown indicators in a text handed to the validator

(* Program constants *)

MAX_RETRIES == 3
RETRY_DELAY == 2         \* seconds
MAX_RETRY_DELAY == 30    \* seconds
MIN_CONTENT_LENGTH == 50
MIN_INDICATORS == 3
MIN_CHANGELOG_LENGTH == 100
SCANNED_LINES == 50     \* lines[:50] of validate_markdown_content
HTML_WINDOW == 100      \* content[:100] of validate_markdown_content
HTML_TAG_LENGTH == 5    \* len('<html')
DOCTYPE_LENGTH == 9     \* len('<!DOCTYPE')
CHANGELOG_HEADER_LENGTH == 271
CHANGELOG_HEADER_STRIPPED == 269

-----------------------------------------------------------------------------
(* Strings *)

MD_SUFFIX == <<".", "m", "d">>
MANIFEST_FILE == <<"d", "o", "c", "s", "_", "m", "a", "n", "i", "f", "e", "s", "t", ".", "j", "s", "o", "n">>
CHANGELOG_FILENAME == <<"c", "h", "a", "n", "g", "e", "l", "o", "g", ".", "m", "d">>
SRC_CODE == <<"c", "o", "d", "e">>
SRC_PLATFORM == <<"p", "l", "a", "t", "f", "o", "r", "m">>
SRC_CHANGELOG == <<"c", "h", "a", "n", "g", "e", "l", "o", "g">>
CAT_BWC == <<"b", "w", "c">>
CAT_REF == <<"r", "e", "f">>
\* Python's None for a category: no string of characters equals it.
None == <<"None">>

BUILD_WITH_CLAUDE_CODE_PAGES ==
    { <<"s", "u", "b", "-", "a", "g", "e", "n", "t", "s">>,
      <<"p", "l", "u", "g", "i", "n", "s">>,
      <<"d", "i", "s", "c", "o", "v", "e", "r", "-", "p", "l", "u", "g", "i", "n", "s">>,
      <<"p", "l", "u", "g", "i", "n", "-", "m", "a", "r", "k", "e", "t", "p", "l", "a", "c", "e", "s">>,
      <<"s", "k", "i", "l", "l", "s">>,
      <<"o", "u", "t", "p", "u", "t", "-", "s", "t", "y", "l", "e", "s">>,
      <<"h", "o", "o", "k", "s", "-", "g", "u", "i", "d", "e">>,
      <<"h", "e", "a", "d", "l", "e", "s", "s">>,
      <<"m", "c", "p">>,
      <<"t", "r", "o", "u", "b", "l", "e", "s", "h", "o", "o", "t", "i", "n", "g">>,
      <<"d", "e", "v", "c", "o", "n", "t", "a", "i", "n", "e", "r">> }

REFERENCE_PAGES ==
    { <<"c", "l", "i", "-", "r", "e", "f", "e", "r", "e", "n", "c", "e">>,
      <<"i", "n", "t", "e", "r", "a", "c", "t", "i", "v", "e", "-", "m", "o", "d", "e">>,
      <<"s", "l", "a", "s", "h", "-", "c", "o", "m", "m", "a", "n", "d", "s">>,
      <<"c", "h", "e", "c", "k", "p", "o", "i", "n", "t", "i", "n", "g">>,
      <<"h", "o", "o", "k", "s">>,
      <<"p", "l", "u", "g", "i", "n", "s", "-", "r", "e", "f", "e", "r", "e", "n", "c", "e">> }

\* str.endswith
EndsWith(s, suffix) ==
    /\ Len(s) >= Len(suffix)
    /\ SubSeq(s, Len(s) - Len(suffix) + 1, Len(s)) = suffix

\* str.strip(ch): drop every leading and trailing ch
RECURSIVE LStrip(_, _)
LStrip(s, ch) ==
    IF s # <<>> /\ Head(s) = ch THEN LStrip(Tail(s), ch) ELSE s

RECURSIVE RStrip(_, _)
RStrip(s, ch) ==
    IF s # <<>> /\ s[Len(s)] = ch THEN RStrip(SubSeq(s, 1, Len(s) - 1), ch) ELSE s

Strip(s, ch) == RStrip(LStrip(s, ch), ch)

\* str.replace(ch, by) for a one-character ch
RECURSIVE Replace(_, _, _)
Replace(s, ch, by) ==
    IF s = <<>> THEN <<>>
    ELSE (IF Head(s) = ch THEN by ELSE <<Head(s)>>) \o Replace(Tail(s), ch, by)

\* truth value of a category argument: None and "" are false
Truthy(category) == category # None /\ category # <<>>

\* fault: the .md extension of the path is left in place
url_to_safe_filename_keep_suffix(url_path, source, category) ==
    LET stripped == Strip(url_path, "/")
        safe_name == Replace(stripped, "/", <<"_", "_">>)
        prefix == IF source = SRC_CODE /\ Truthy(category)
                  THEN <<"c", "o", "d", "e", "_", "_">> \o category
                  ELSE source
    IN  prefix \o <<"_", "_">> \o safe_name \o MD_SUFFIX

url_to_safe_filename(url_path, source, category) ==
    LET path == IF EndsWith(url_path, MD_SUFFIX)
                THEN SubSeq(url_path, 1, Len(url_path) - 3)
                ELSE url_path
        stripped == Strip(path, "/")
        safe_name == Replace(stripped, "/", <<"_", "_">>)
        prefix == IF source = SRC_CODE /\ Truthy(category)
                  THEN <<"c", "o", "d", "e", "_", "_">> \o category
                  ELSE source
    IN  prefix \o <<"_", "_">> \o safe_name \o MD_SUFFIX

-----------------------------------------------------------------------------
(* Texts.  A text is described by what the program reads from it: whether   *)
(* the validator's HTML test matches it (html), its length (raw), the length *)
(* of its stripped form (len; the bodies the servers of the model send      *)
(* carry no surrounding whitespace), the number of lines among its first 50 *)
(* that hold a markdown indicator (ind), and whether the changelog header   *)
(* was put in front of it (hdr).  id tells two texts with equal features    *)
(* apart.                                                                   *)

EmptyText == [id |-> 0, html |-> FALSE, raw |-> 0, len |-> 0, ind |-> 0, hdr |-> FALSE]
DocA == [id |-> 1, html |-> FALSE, raw |-> 60, len |-> 60, ind |-> 3, hdr |-> FALSE]
DocB == [id |-> 2, html |-> FALSE, raw |-> 80, len |-> 80, ind |-> 5, hdr |-> FALSE]
ErrorPage == [id |-> 3, html |-> TRUE, raw |-> 120, len |-> 120, ind |-> 0, hdr |-> FALSE]
ManualNote == [id |-> 4, html |-> FALSE, raw |-> 70, len |-> 70, ind |-> 3, hdr |-> FALSE]

\* response bodies the remote servers send
Bodies == {DocA, DocB, ErrorPage}

\* hashlib.sha256(content.encode('utf-8')).hexdigest(): distinct texts have
\* distinct digests, and no digest is the empty string
EmptyHash == <<>>
sha256(content) == <<content>>

\* One HTTP exchange of session.get, as the retry loops tell them apart:
\*   error            RequestException (connection failure, or raise_for_status on a 4xx/5xx)
\*   rate_limited     status 429, Retry-After absent or a number of seconds
\*   rate_limited_bad status 429, Retry-After not an integer (int() raises ValueError)
\*   ok               a 2xx response with a body
Outcomes ==
    { [kind |-> k, body |-> EmptyText] : k \in {"error", "rate_limited", "rate_limited_bad"} }
    \cup { [kind |-> "ok", body |-> b] : b \in Bodies }

\* what the server answers on each of the attempts a retry loop can make
FetchInputs == [1..MAX_RETRIES -> Outcomes]

\* what the server would answer to each request of a direct call: one answer
\* more than a retry loop can ask for
ServerAnswers == [1..(MAX_RETRIES + 1) -> Outcomes]

\* the answers a run of main() meets: one and the same answer to every
\* attempt, or a transport failure of the first attempt and then one and the
\* same answer to every later one
RunFetchInputs ==
    { outs \in FetchInputs :
        /\ \A i \in 2..MAX_RETRIES : outs[i] = outs[2]
        /\ outs[1] = outs[2] \/ outs[1].kind = "error" }

\* validate_markdown_content: "ok", or the reason of the ValueError it raises
\* fault: the length is looked at before the HTML test
validate_markdown_content_length_first(content) ==
    IF content.len < MIN_CONTENT_LENGTH THEN "too_short"
    ELSE IF content.raw = 0 \/ content.html THEN "html"
    ELSE IF content.ind < MIN_INDICATORS THEN "not_markdown"
    ELSE "ok"

validate_markdown_content(content) ==
    IF content.raw = 0 \/ content.html THEN "html"
    ELSE IF content.len < MIN_CONTENT_LENGTH THEN "too_short"
    ELSE IF content.ind < MIN_INDICATORS THEN "not_markdown"
    ELSE "ok"

\* results of a retrying fetch: it returned (filename, content), raised, or
\* left its loop and returned None; requests counts the calls of session.get,
\* sleeps lists the calls of time.sleep in order
Returned(filename, content, requests) ==
    [kind |-> "return", filename |-> filename, content |-> content,
     exc |-> "", requests |-> requests, sleeps |-> <<>>]
Raised(filename, exc, requests) ==
    [kind |-> "raise", filename |-> filename, content |-> EmptyText,
     exc |-> exc, requests |-> requests, sleeps |-> <<>>]
ReturnedNone(filename, requests) ==
    [kind |-> "none", filename |-> filename, content |-> EmptyText,
     exc |-> "", requests |-> requests, sleeps |-> <<>>]
NoResult ==
    [kind |-> "", filename |-> <<>>, content |-> EmptyText, exc |-> "", requests |-> 0,
     sleeps |-> <<>>]
\* a direct call of a fetch function: which one, the server's answers, the result
NoCall == [fn |-> "", outs |-> <<>>, result |-> NoResult]
\* no direct call of another function yet
NoDirectCall == [fn |-> "", args |-> <<>>, result |-> <<>>]

RECURSIVE Pow2(_)
Pow2(n) == IF n = 0 THEN 1 ELSE 2 * Pow2(n - 1)

Min(a, b) == IF a < b THEN a ELSE b

\* time.sleep(wait_time) of the 429 branch, after request number `request`
RateLimitWait(request) == [kind |-> "rate_limit_wait", after |-> request, delay |-> 0]

\* time.sleep(jittered_delay) of the except branch in iteration `attempt`:
\* delay is the value before the jitter, which only shortens it
Backoff(attempt) ==
    [kind |-> "backoff", after |-> attempt + 1,
     delay |-> Min(RETRY_DELAY * Pow2(attempt), MAX_RETRY_DELAY)]

\* the loop slept, and then went on to `result`
SleptThen(sleep, result) == [result EXCEPT !.sleeps = <<sleep>> \o @]

\* fault: a rejected body is handled like a transport failure and asked for again
RECURSIVE fetch_markdown_attempts_retry_rejected(_, _, _)
fetch_markdown_attempts_retry_rejected(filename, outs, attempt) ==
    IF attempt >= MAX_RETRIES THEN ReturnedNone(filename, attempt)
    ELSE LET response == outs[attempt + 1]
             rejected == response.kind = "ok"
                         /\ validate_markdown_content(response.body) # "ok"
         IN
         CASE response.kind = "rate_limited" ->
                  SleptThen(RateLimitWait(attempt + 1),
                            fetch_markdown_attempts_retry_rejected(filename, outs, attempt + 1))
           [] response.kind = "rate_limited_bad" ->
                  Raised(filename, "ValueError", attempt + 1)
           [] response.kind = "error" \/ rejected ->
                  IF attempt < MAX_RETRIES - 1
                  THEN SleptThen(Backoff(attempt),
                                 fetch_markdown_attempts_retry_rejected(filename, outs,
                                                                        attempt + 1))
                  ELSE Raised(filename, IF rejected THEN "ValueError" ELSE "Exception",
                              attempt + 1)
           [] OTHER -> Returned(filename, response.body, attempt + 1)

\* fault: the loop backs off after its last attempt too, before it gives up
RECURSIVE fetch_markdown_attempts_backoff_last(_, _, _)
fetch_markdown_attempts_backoff_last(filename, outs, attempt) ==
    IF attempt >= MAX_RETRIES THEN ReturnedNone(filename, attempt)
    ELSE LET response == outs[attempt + 1] IN
         CASE response.kind = "rate_limited" ->
                  SleptThen(RateLimitWait(attempt + 1),
                            fetch_markdown_attempts_backoff_last(filename, outs, attempt + 1))
           [] response.kind = "rate_limited_bad" ->
                  Raised(filename, "ValueError", attempt + 1)
           [] response.kind = "error" ->
                  SleptThen(Backoff(attempt),
                            IF attempt < MAX_RETRIES - 1
                            THEN fetch_markdown_attempts_backoff_last(filename, outs,
                                                                      attempt + 1)
                            ELSE Raised(filename, "Exception", attempt + 1))
           [] response.kind = "ok" ->
                  IF validate_markdown_content(response.body) = "ok"
                  THEN Returned(filename, response.body, attempt + 1)
                  ELSE Raised(filename, "ValueError", attempt + 1)

\* the body of `for attempt in range(MAX_RETRIES)` of fetch_markdown_content,
\* from iteration `attempt` (0-based) on
RECURSIVE fetch_markdown_attempts(_, _, _)
fetch_markdown_attempts(filename, outs, attempt) ==
    IF attempt >= MAX_RETRIES THEN ReturnedNone(filename, attempt)
    ELSE LET response == outs[attempt + 1] IN
         CASE response.kind = "rate_limited" ->
                  SleptThen(RateLimitWait(attempt + 1),
                            fetch_markdown_attempts(filename, outs, attempt + 1))
           [] response.kind = "rate_limited_bad" ->
                  Raised(filename, "ValueError", attempt + 1)
           [] response.kind = "error" ->
                  IF attempt < MAX_RETRIES - 1
                  THEN SleptThen(Backoff(attempt),
                                 fetch_markdown_attempts(filename, outs, attempt + 1))
                  ELSE Raised(filename, "Exception", attempt + 1)
           [] response.kind = "ok" ->
                  IF validate_markdown_content(response.body) = "ok"
                  THEN Returned(filename, response.body, attempt + 1)
                  ELSE Raised(filename, "ValueError", attempt + 1)

fetch_markdown_content(outs, source, category, page_path) ==
    fetch_markdown_attempts(url_to_safe_filename(page_path, source, category), outs, 0)

\* header + content of fetch_changelog
WithHeader(body) ==
    [id |-> body.id, html |-> FALSE, ind |-> body.ind, hdr |-> TRUE,
     raw |-> CHANGELOG_HEADER_LENGTH + body.raw,
     len |-> IF body.len = 0 THEN CHANGELOG_HEADER_STRIPPED
             ELSE CHANGELOG_HEADER_LENGTH + body.len]

RECURSIVE fetch_changelog_attempts(_, _)
fetch_changelog_attempts(outs, attempt) ==
    IF attempt >= MAX_RETRIES THEN ReturnedNone(CHANGELOG_FILENAME, attempt)
    ELSE LET response == outs[attempt + 1] IN
         CASE response.kind = "rate_limited" ->
                  SleptThen(RateLimitWait(attempt + 1),
                            fetch_changelog_attempts(outs, attempt + 1))
           [] response.kind = "rate_limited_bad" ->
                  Raised(CHANGELOG_FILENAME, "ValueError", attempt + 1)
           [] response.kind = "error" ->
                  IF attempt < MAX_RETRIES - 1
                  THEN SleptThen(Backoff(attempt), fetch_changelog_attempts(outs, attempt + 1))
                  ELSE Raised(CHANGELOG_FILENAME, "Exception", attempt + 1)
           [] response.kind = "ok" ->
                  LET content == WithHeader(response.body) IN
                  IF content.len < MIN_CHANGELOG_LENGTH
                  THEN Raised(CHANGELOG_FILENAME, "ValueError", attempt + 1)
                  ELSE Returned(CHANGELOG_FILENAME, content, attempt + 1)

fetch_changelog(outs) == fetch_changelog_attempts(outs, 0)

\* fault: every fetched content is taken for changed
content_has_changed_always(content, old_hash) == TRUE

content_has_changed(content, old_hash) == sha256(content) # old_hash

-----------------------------------------------------------------------------
(* Discovery *)

\* page names and paths the link lists of the model can name
PAGE_hooks == <<"h", "o", "o", "k", "s">>
PAGE_unlisted == <<"z", "z">>
PATH_a_b == <<"a", "/", "b", ".", "m", "d">>
PATH_a__b == <<"a", "_", "_", "b", ".", "m", "d">>
\* the pages each site can list, in the order its link list names them
CodeCatalogue == <<PAGE_hooks, PAGE_unlisted>>
PlatformCatalogue == <<PATH_a_b, PATH_a__b>>

\* the entries of catalogue that mask keeps, in order
RECURSIVE Masked(_, _)
Masked(catalogue, mask) ==
    IF catalogue = <<>> THEN <<>>
    ELSE (IF Head(mask) THEN <<Head(catalogue)>> ELSE <<>>)
         \o Masked(Tail(catalogue), Tail(mask))

\* link lists of at most n links: a part of the catalogue, each page listed once
LinkLists(catalogue, n) ==
    { Masked(catalogue, mask) :
        mask \in { m \in [1..Len(catalogue) -> BOOLEAN] :
                       Cardinality({ i \in 1..Len(catalogue) : m[i] }) <= n } }

\* the answer to the GET of a link list: a transport failure, or a text whose
\* links (group 2 of each match of the pattern, in order) are `links`
LinkListResponses(catalogue, n) ==
    { [ok |-> FALSE, links |-> <<>>] }
    \cup { [ok |-> TRUE, links |-> l] : l \in LinkLists(catalogue, n) }

Identity(source, page, category) == [source |-> source, page |-> page, category |-> category]

\* fault: a page in neither set is kept, without category
RECURSIVE categorize_keep_unknown(_)
categorize_keep_unknown(links) ==
    IF links = <<>> THEN <<>>
    ELSE LET page_name == Head(links) IN
         IF page_name \in BUILD_WITH_CLAUDE_CODE_PAGES
         THEN <<Identity(SRC_CODE, page_name, CAT_BWC)>> \o categorize_keep_unknown(Tail(links))
         ELSE IF page_name \in REFERENCE_PAGES
         THEN <<Identity(SRC_CODE, page_name, CAT_REF)>> \o categorize_keep_unknown(Tail(links))
         ELSE <<Identity(SRC_CODE, page_name, None)>> \o categorize_keep_unknown(Tail(links))

\* the loop over pattern.finditer of discover_claude_code_docs
RECURSIVE categorize(_)
categorize(links) ==
    IF links = <<>> THEN <<>>
    ELSE LET page_name == Head(links) IN
         IF page_name \in BUILD_WITH_CLAUDE_CODE_PAGES
         THEN <<Identity(SRC_CODE, page_name, CAT_BWC)>> \o categorize(Tail(links))
         ELSE IF page_name \in REFERENCE_PAGES
         THEN <<Identity(SRC_CODE, page_name, CAT_REF)>> \o categorize(Tail(links))
         ELSE categorize(Tail(links))

\* the page names the same loop logs the unknown-page warning for
unknown_pages(links) ==
    { links[i] : i \in 1..Len(links) } \ (BUILD_WITH_CLAUDE_CODE_PAGES \cup REFERENCE_PAGES)

\* [raised, results]: the exception re-raised, or the list returned
discover_claude_code_docs(response) ==
    IF ~response.ok THEN [raised |-> TRUE, results |-> <<>>]
    ELSE [raised |-> FALSE, results |-> categorize(response.links)]

discover_platform_docs(response) ==
    IF ~response.ok THEN [raised |-> TRUE, results |-> <<>>]
    ELSE [raised |-> FALSE,
          results |-> [i \in 1..Len(response.links) |->
                          Identity(SRC_PLATFORM, response.links[i], None)]]

-----------------------------------------------------------------------------
(* Files *)

EmptyMap == [f \in {} |-> EmptyText]

\* Path.write_text: create or overwrite
write_text(dir, filename, content) ==
    [f \in DOMAIN dir \cup {filename} |-> IF f = filename THEN content ELSE dir[f]]

\* Path.unlink
unlink(dir, filename) == [f \in DOMAIN dir \ {filename} |-> dir[f]]

\* docs_manifest.json: whether it exists, what its text is (a JSON object, a
\* JSON object without the key "files", or text json.loads cannot parse), and
\* the files its text lists
NoManifestFile == [exists |-> FALSE, form |-> "object", files |-> EmptyMap]

\* the file json.dumps of a manifest with these files is written to
ManifestFileOf(files) == [exists |-> TRUE, form |-> "object", files |-> files]

\* manifest["files"] as main reads it
\* fault: whatever the file lists is taken, parsed or not
load_manifest_unchecked(mf) == IF mf.exists THEN mf.files ELSE EmptyMap

load_manifest(mf) ==
    IF ~mf.exists THEN EmptyMap                   \* line 84
    ELSE CASE mf.form = "unparseable" -> EmptyMap   \* json.loads raises: lines 82-84
           [] mf.form = "no_files_key" -> EmptyMap  \* manifest["files"] = {}: lines 79-81
           [] mf.form = "object" -> mf.files

\* manifest.get("files", {}).get(filename, {})
\* (of the URLs an entry records, which the identity fixes and the program
\* never reads back, the model keeps the page they end in)
NoEntry ==
    [hash |-> EmptyHash, last_updated |-> 0, source |-> <<>>, category |-> None,
     page |-> <<>>]
old_entry_of(files, filename) == IF filename \in DOMAIN files THEN files[filename] ELSE NoEntry

\* old_entry.get("last_updated", default)
last_updated_or(entry, default) == IF entry = NoEntry THEN default ELSE entry.last_updated

\* fault: nothing is pruned
obsolete_files_none(current_files, previous) == {}

\* fault: a run that fetched nothing leaves the files of the run before alone
obsolete_files_unless_empty(current_files, previous) ==
    IF current_files = {} THEN {} ELSE DOMAIN previous \ current_files

\* fault: the files still current are taken for the obsolete ones
obsolete_files_current(current_files, previous) == DOMAIN previous \cap current_files

\* fault: everything in the directory that this run did not fetch
obsolete_files_unfetched(current_files, previous) == DOMAIN disk \ current_files

\* previous_files - current_files of cleanup_old_files
obsolete_files(current_files, previous) == DOMAIN previous \ current_files

\* fault: any failed page fails the run
exit_code_any_failure(failed_list, n_successful) == IF failed_list # <<>> THEN 1 ELSE 0

\* the verdict of main's summary: the status the process exits with
exit_code(failed_list, n_successful) ==
    IF failed_list # <<>> THEN (IF n_successful = 0 THEN 1 ELSE 0) ELSE 0

NoMeta == [total_pages_discovered |-> 0, pages_fetched_successfully |-> 0,
           pages_failed |-> 0, failed_pages |-> <<>>, total_files |-> 0]

-----------------------------------------------------------------------------
(* History of a run *)

NoIdentity == Identity(<<>>, <<>>, None)
ChangelogIdentity == Identity(SRC_CHANGELOG, <<>>, None)

\* the filename the run gives an identity
FilenameOf(ident) ==
    IF ident.source = SRC_CHANGELOG THEN CHANGELOG_FILENAME
    ELSE url_to_safe_filename(ident.page, ident.source, ident.category)

\* discovery of a source returned `results`, or (ok = FALSE) raised
DiscoverEvent(source, ok, results) ==
    [kind |-> "discover", source |-> source, ok |-> ok, results |-> results,
     ident |-> NoIdentity, content |-> EmptyText]

\* the fetch of ident returned content, or (ok = FALSE) failed
FetchEvent(ident, ok, content) ==
    [kind |-> "fetch", source |-> ident.source, ok |-> ok, results |-> <<>>,
     ident |-> ident, content |-> content]

Record(e) ==
    LET matches == same /\ expect # <<>> /\ Head(expect) = e IN
    /\ trace' = Append(trace, e)
    /\ same' = matches
    /\ expect' = IF matches THEN Tail(expect) ELSE <<>>

-----------------------------------------------------------------------------
(* The run: main() *)

\* the docs directory before the first run: empty, or holding files a user put there
ManualDirs ==
    { EmptyMap,
      [f \in {<<"n", "o", "t", "e", "s", ".", "m", "d">>,
              url_to_safe_filename(PATH_a_b, SRC_PLATFORM, None)} |-> ManualNote] }

Init ==
    /\ disk \in ManualDirs
    /\ manifest_file = NoManifestFile
    /\ pc = "idle"
    /\ runs = 0
    /\ now = 0
    /\ manifest = EmptyMap
    /\ new_manifest = EmptyMap
    /\ fetched_files = {}
    /\ successful = 0
    /\ failed = 0
    /\ failed_pages = <<>>
    /\ total_discovered = 0
    /\ docs = <<>>
    /\ idx = 0
    /\ files_to_remove = {}
    /\ exit_status = 0
    /\ saved_meta = NoMeta
    /\ trace = <<>>
    /\ expect = <<>>
    /\ same = FALSE
    /\ written = {}
    /\ deleted = {}
    /\ saves = 0
    /\ fetch_call = NoCall
    /\ direct_call = NoDirectCall
    /\ warned = {}

\* main, lines 416-438: a new process loads the manifest and clears its statistics
StartRunUpTo(max_runs) ==
    /\ pc \in {"idle", "exited", "crashed"}
    /\ runs < max_runs
    /\ runs' = runs + 1
    /\ now' = runs + 1
    /\ manifest' = load_manifest(manifest_file)
    /\ new_manifest' = EmptyMap
    /\ fetched_files' = {}
    /\ successful' = 0
    /\ failed' = 0
    /\ failed_pages' = <<>>
    /\ total_discovered' = 0
    /\ docs' = <<>>
    /\ idx' = 0
    /\ files_to_remove' = {}
    /\ exit_status' = 0
    /\ saved_meta' = NoMeta
    /\ expect' = IF pc = "exited" THEN trace ELSE <<>>
    /\ same' = (pc = "exited")
    /\ trace' = <<>>
    /\ written' = {}
    /\ deleted' = {}
    /\ warned' = {}
    /\ pc' = "code_discover"
    /\ saves' = 0
    /\ UNCHANGED <<disk, manifest_file, fetch_call, direct_call>>

StartRun == StartRunUpTo(MaxRuns)

\* the per-identity block of main: what it does with the result of the fetch
\* (lines 462-493 for a code page; 519-549 and 561-588 repeat it)
SyncIdentity(result, ident) ==
    IF result.kind = "return"
    THEN LET filename == result.filename
             content == result.content
             old_entry == old_entry_of(manifest, filename)
             old_hash == old_entry.hash
             changed == content_has_changed(content, old_hash)
             content_hash == IF changed THEN sha256(content) ELSE old_hash
             last_updated == IF changed THEN now ELSE last_updated_or(old_entry, now)
             entry == [hash |-> content_hash, last_updated |-> last_updated,
                       source |-> ident.source, category |-> ident.category,
                       page |-> ident.page]
         IN  /\ disk' = IF changed THEN write_text(disk, filename, content) ELSE disk
             /\ written' = IF changed THEN written \cup {filename} ELSE written
             /\ new_manifest' = [f \in DOMAIN new_manifest \cup {filename} |->
                                    IF f = filename THEN entry ELSE new_manifest[f]]
             /\ fetched_files' = fetched_files \cup {filename}
             /\ successful' = successful + 1
             /\ Record(FetchEvent(ident, TRUE, content))
             /\ UNCHANGED <<failed, failed_pages>>
    ELSE \* an exception, or the TypeError of unpacking None: the except clause
         /\ failed' = failed + 1
         /\ failed_pages' = Append(failed_pages, [source |-> ident.source, page |-> ident.page])
         /\ Record(FetchEvent(ident, FALSE, EmptyText))
         /\ UNCHANGED <<disk, written, new_manifest, fetched_files, successful>>

\* fault: the exception of a discovery escapes the sources and ends the fetching
AfterDiscoveryFailure_abort(next_pc) == "cleanup"

\* where main goes when discovery of a source raised: the except clause of the
\* source's try block, then the next source
AfterDiscoveryFailure(next_pc) == next_pc

\* fault: a failed identity ends the loop over its source
AfterIdentityFailure_break(loop_pc, next_pc) == next_pc

\* where main goes after the per-identity block of docs[idx] ended in its
\* except clause: the next iteration of the loop, if any
AfterIdentityFailure(loop_pc, next_pc) == IF idx = Len(docs) THEN next_pc ELSE loop_pc

Discover(at_pc, source, result, loop_pc, next_pc) ==
    /\ pc = at_pc
    /\ IF result.raised
       THEN /\ pc' = AfterDiscoveryFailure(next_pc)
            /\ Record(DiscoverEvent(source, FALSE, <<>>))
            /\ UNCHANGED <<total_discovered, docs, idx>>
       ELSE /\ total_discovered' = total_discovered + Len(result.results)
            /\ docs' = result.results
            /\ idx' = 1
            /\ pc' = IF result.results = <<>> THEN next_pc ELSE loop_pc
            /\ Record(DiscoverEvent(source, TRUE, result.results))
    /\ UNCHANGED <<disk, manifest_file, saves, runs, now, manifest, new_manifest, fetched_files,
                   successful, failed, failed_pages, files_to_remove, exit_status,
                   saved_meta, written, deleted, fetch_call, direct_call>>

\* main, lines 445-448 and 495-496
DiscoverCodeFrom(responses) ==
    \E response \in responses :
        /\ Discover("code_discover", SRC_CODE, discover_claude_code_docs(response),
                    "code_fetch", "platform_discover")
        /\ warned' = IF response.ok THEN unknown_pages(response.links) ELSE {}

DiscoverCode == DiscoverCodeFrom(LinkListResponses(CodeCatalogue, MaxCodeLinks))

\* main, lines 502-505 and 551-552
DiscoverPlatformFrom(responses) ==
    \E response \in responses :
        /\ Discover("platform_discover", SRC_PLATFORM, discover_platform_docs(response),
                    "platform_fetch", "changelog")
        /\ warned' = {}

DiscoverPlatform == DiscoverPlatformFrom(LinkListResponses(PlatformCatalogue, MaxPlatformLinks))

FetchPage(loop_pc, next_pc) ==
    /\ pc = loop_pc
    /\ \E outs \in RunFetchInputs :
         LET ident == docs[idx]
             result == fetch_markdown_content(outs, ident.source, ident.category, ident.page)
         IN  /\ SyncIdentity(result, ident)
             /\ pc' = IF result.kind = "return"
                      THEN (IF idx = Len(docs) THEN next_pc ELSE loop_pc)
                      ELSE AfterIdentityFailure(loop_pc, next_pc)
    /\ idx' = idx + 1
    /\ UNCHANGED <<manifest_file, saves, runs, now, manifest, total_discovered, docs,
                   files_to_remove, exit_status, saved_meta, deleted, fetch_call, direct_call>>
    /\ warned' = {}

\* main, lines 450-493: one iteration of the loop over claude_code_docs
FetchCodePage == FetchPage("code_fetch", "platform_discover")

\* main, lines 507-549: one iteration of the loop over platform_docs
FetchPlatformPage == FetchPage("platform_fetch", "changelog")

\* main, lines 557-591: the changelog, then the call of cleanup_old_files,
\* which computes the files to remove
FetchChangelog ==
    /\ pc = "changelog"
    /\ \E outs \in RunFetchInputs :
         LET result == fetch_changelog(outs) IN
         /\ SyncIdentity(result, ChangelogIdentity)
    /\ files_to_remove' = obsolete_files(fetched_files', manifest)
    /\ pc' = "cleanup"
    /\ UNCHANGED <<manifest_file, saves, runs, now, manifest, total_discovered, docs, idx,
                   exit_status, saved_meta, deleted, fetch_call, direct_call>>
    /\ warned' = {}

\* cleanup_old_files, lines 404-411: one iteration of its loop (a set is
\* iterated in no particular order)
CleanupOldFile ==
    /\ pc = "cleanup"
    /\ \E filename \in files_to_remove :
         /\ files_to_remove' = files_to_remove \ {filename}
         /\ IF filename # MANIFEST_FILE /\ filename \in DOMAIN disk
            THEN /\ disk' = unlink(disk, filename)
                 /\ deleted' = deleted \cup {filename}
            ELSE UNCHANGED <<disk, deleted>>
    /\ UNCHANGED <<manifest_file, saves, pc, runs, now, manifest, new_manifest, fetched_files,
                   successful, failed, failed_pages, total_discovered, docs, idx,
                   exit_status, saved_meta, trace, expect, same, written, fetch_call, direct_call>>
    /\ warned' = {}

\* fault: the changelog is counted among the discovered pages
fetch_metadata_counting_changelog ==
    [total_pages_discovered |-> total_discovered + 1,
     pages_fetched_successfully |-> successful,
     pages_failed |-> failed,
     failed_pages |-> failed_pages,
     total_files |-> Cardinality(fetched_files)]

\* new_manifest["fetch_metadata"], lines 594-608: the statistics of the run
fetch_metadata ==
    [total_pages_discovered |-> total_discovered,
     pages_fetched_successfully |-> successful,
     pages_failed |-> failed,
     failed_pages |-> failed_pages,
     total_files |-> Cardinality(fetched_files)]

\* fault: the manifest is saved while cleanup_old_files is still at work
SaveManifestAndExit_during_cleanup ==
    /\ pc = "cleanup"
    /\ manifest_file' = ManifestFileOf(new_manifest)
    /\ saves' = saves + 1
    /\ saved_meta' = fetch_metadata
    /\ exit_status' = exit_code(failed_pages, successful)
    /\ pc' = IF files_to_remove = {} THEN "exited" ELSE "cleanup"
    /\ UNCHANGED <<disk, runs, now, manifest, new_manifest, fetched_files, successful,
                   failed, failed_pages, total_discovered, docs, idx, files_to_remove,
                   trace, expect, same, written, deleted, fetch_call, direct_call>>
    /\ warned' = {}

\* main, lines 593-630: save_manifest writes the new manifest, then the summary
\* decides the exit status
SaveManifestAndExit ==
    /\ pc = "cleanup"
    /\ files_to_remove = {}
    /\ manifest_file' = ManifestFileOf(new_manifest)
    /\ saves' = saves + 1
    /\ saved_meta' = fetch_metadata
    /\ exit_status' = exit_code(failed_pages, successful)
    /\ pc' = "exited"
    /\ UNCHANGED <<disk, runs, now, manifest, new_manifest, fetched_files, successful,
                   failed, failed_pages, total_discovered, docs, idx, files_to_remove,
                   trace, expect, same, written, deleted, fetch_call, direct_call>>
    /\ warned' = {}

\* the process is killed in the middle of a run
Crash ==
    /\ pc \in {"code_discover", "code_fetch", "platform_discover", "platform_fetch",
               "changelog", "cleanup"}
    /\ pc' = "crashed"
    /\ UNCHANGED <<disk, manifest_file, saves, runs, now, manifest, new_manifest, fetched_files,
                   successful, failed, failed_pages, total_discovered, docs, idx,
                   files_to_remove, exit_status, saved_meta, trace, expect, same,
                   written, deleted, fetch_call, direct_call>>
    /\ warned' = {}

Next ==
    \/ StartRun
    \/ DiscoverCode
    \/ FetchCodePage
    \/ DiscoverPlatform
    \/ FetchPlatformPage
    \/ FetchChangelog
    \/ CleanupOldFile
    \/ SaveManifestAndExit

\* runs that all complete
Spec == Init /\ [][Next]_vars

NextCrash == Next \/ Crash

\* runs that may be interrupted at any step
SpecCrash == Init /\ [][NextCrash]_vars

-----------------------------------------------------------------------------
(* Runs against sites of one page each, with a manifest file that is lost  *)
(* or damaged between runs                                                 *)

\* the answers to the GET of the link list of a site with one page: a
\* transport failure, or a text that names the page
OnePageResponses(page) ==
    { [ok |-> FALSE, links |-> <<>>], [ok |-> TRUE, links |-> <<page>>] }

DiscoverOneCodePage == DiscoverCodeFrom(OnePageResponses(PAGE_hooks))

DiscoverOnePlatformPage == DiscoverPlatformFrom(OnePageResponses(PATH_a_b))

\* what docs_manifest.json can be turned into while no run is at work: it is
\* removed, its text is cut short (it still holds part of what it listed, and
\* json.loads cannot parse it), or it is replaced by an object without "files"
DamagedManifestFiles(mf) ==
    { NoManifestFile,
      [exists |-> TRUE, form |-> "unparseable", files |-> mf.files],
      [exists |-> TRUE, form |-> "no_files_key", files |-> EmptyMap] }

DamageManifest ==
    /\ pc \in {"idle", "exited", "crashed"}
    /\ manifest_file.form = "object"
    /\ \E mf \in DamagedManifestFiles(manifest_file) \ {manifest_file} : manifest_file' = mf
    /\ UNCHANGED <<disk, saves, pc, runs, now, run_vars, exit_status, saved_meta, trace,
                   expect, same, written, deleted, fetch_call, direct_call, warned>>

NextDamaged ==
    \/ StartRun
    \/ DiscoverOneCodePage
    \/ FetchCodePage
    \/ DiscoverOnePlatformPage
    \/ FetchPlatformPage
    \/ FetchChangelog
    \/ CleanupOldFile
    \/ SaveManifestAndExit
    \/ DamageManifest

SpecDamaged == Init /\ [][NextDamaged]_vars

-----------------------------------------------------------------------------
(* Runs at sites with one page each, any of which may be interrupted, with *)
(* room for a completed run, an interrupted run and a run that recovers     *)

MaxRecoveryRuns == 3

StartRecoveryRun == StartRunUpTo(MaxRecoveryRuns)

NextRecover ==
    \/ StartRecoveryRun
    \/ DiscoverOneCodePage
    \/ FetchCodePage
    \/ DiscoverOnePlatformPage
    \/ FetchPlatformPage
    \/ FetchChangelog
    \/ CleanupOldFile
    \/ SaveManifestAndExit
    \/ Crash

SpecRecover == Init /\ [][NextRecover]_vars

-----------------------------------------------------------------------------
(* The retrying fetches on their own: every answer sequence of the server *)

CallFetchMarkdownContent ==
    /\ fetch_call = NoCall
    /\ UNCHANGED <<direct_call, warned>>
    /\ \E outs \in ServerAnswers :
       \E ident \in { Identity(SRC_CODE, PAGE_hooks, CAT_REF),
                      Identity(SRC_PLATFORM, PATH_a_b, None) } :
        /\ fetch_call' = [fn |-> "fetch_markdown_content", outs |-> outs,
                          result |-> fetch_markdown_content(outs, ident.source,
                                                            ident.category, ident.page)]
        /\ UNCHANGED <<disk, manifest_file, saves, pc, runs, now, run_vars, exit_status,
                       saved_meta, trace, expect, same, written, deleted>>

CallFetchChangelog ==
    /\ fetch_call = NoCall
    /\ UNCHANGED <<direct_call, warned>>
    /\ \E outs \in ServerAnswers :
        /\ fetch_call' = [fn |-> "fetch_changelog", outs |-> outs,
                          result |-> fetch_changelog(outs)]
        /\ UNCHANGED <<disk, manifest_file, saves, pc, runs, now, run_vars, exit_status,
                       saved_meta, trace, expect, same, written, deleted>>

NextFetch == CallFetchMarkdownContent \/ CallFetchChangelog

SpecFetch == Init /\ [][NextFetch]_vars

-----------------------------------------------------------------------------
(* Direct calls of validate_markdown_content.  A text handed to the        *)
(* validator is described by what it begins with (start), the offset of    *)
(* the first '<html' in it (html_pos, 0 when there is none), the number of *)
(* blanks in front of it (lead), its lines in order, each with its length  *)
(* and the set of markdown indicators that occur in it, and whether one of *)
(* the topical keywords occurs in it (keyword).                            *)

\* markdown_indicators ("fence" stands for the three backquotes of a code block)
MARKDOWN_INDICATORS == {"# ", "## ", "### ", "fence", "- ", "* ", "1. ", "[", "**", "_", "> "}

PlainLine(n) == [len |-> n, ind |-> {}]

\* the i-th line with indicators of a text, by the style of the text: a list,
\* lines that each hold a heading, a link and bold text, or a different
\* element on every line
IndicatorOrder == <<"# ", "- ", "[", "**", "> ">>
MarkedLine(style, i, n) ==
    [len |-> n,
     ind |-> CASE style = "list" -> {"- "}
               [] style = "rich" -> {"# ", "[", "**"}
               [] style = "mixed" -> {IndicatorOrder[((i - 1) % Len(IndicatorOrder)) + 1]}]

\* content.split('\n') of the texts of the calls: `before` lines of prose, then
\* `marked` lines with indicators, every line n characters long; the empty
\* text is one empty line
LinesOf(before, marked, style, n) ==
    IF before + marked = 0 THEN <<PlainLine(0)>>
    ELSE [i \in 1..(before + marked) |->
             IF i <= before THEN PlainLine(n) ELSE MarkedLine(style, i - before, n)]

LineLists ==
    { LinesOf(before, marked, style, n) :
        before \in {0, 1} \cup ((SCANNED_LINES - 3)..(SCANNED_LINES + 1)),
        marked \in 0..MaxMarkedLines,
        style \in {"list", "rich", "mixed"},
        n \in {20, 49, 50, 120} }

RECURSIVE SumLens(_)
SumLens(lines) == IF lines = <<>> THEN 0 ELSE Head(lines).len + SumLens(Tail(lines))

\* len(content): the blanks in front, the lines, and the newlines between them
RawLength(t) == t.lead + SumLens(t.lines) + (Len(t.lines) - 1)

\* len(content.strip()): a text of blanks only strips to nothing
StrippedLength(t) == IF SumLens(t.lines) = 0 THEN 0 ELSE RawLength(t) - t.lead

\* the texts of the calls: those some string of characters has the description of
Texts ==
    { t \in [start : {"", "<!DOCTYPE", "<!doctype"},
             html_pos : {0, 17, 96, 97},
             lead : {0, 2},
             lines : LineLists,
             keyword : BOOLEAN] :
        /\ t.start # "" => (t.lead = 0 /\ Head(t.lines).len >= DOCTYPE_LENGTH)
        /\ t.html_pos > 0 => t.html_pos + HTML_TAG_LENGTH - 1 <= RawLength(t)
        /\ (t.html_pos > 0 /\ t.start # "") => t.html_pos > DOCTYPE_LENGTH
        /\ t.keyword => StrippedLength(t) > 0 }

\* content.startswith('<!DOCTYPE') or '<html' in content[:100]
DetectedHtml(t) ==
    \/ t.start = "<!DOCTYPE"
    \/ t.html_pos > 0 /\ t.html_pos + HTML_TAG_LENGTH - 1 <= HTML_WINDOW

\* the lines of `lines` in which some indicator occurs: the inner loop counts a
\* line once and breaks
RECURSIVE CountMarked(_)
CountMarked(lines) ==
    IF lines = <<>> THEN 0
    ELSE (IF Head(lines).ind \cap MARKDOWN_INDICATORS # {} THEN 1 ELSE 0)
         + CountMarked(Tail(lines))

\* fault: the whole text is scanned
indicator_count_whole_text(lines) == CountMarked(lines)

\* indicator_count after the loop over lines[:50]
indicator_count(lines) ==
    CountMarked(SubSeq(lines, 1, IF Len(lines) < SCANNED_LINES THEN Len(lines)
                                 ELSE SCANNED_LINES))

\* what validate_markdown_content reads from the text
Features(t) ==
    [id |-> 0, html |-> DetectedHtml(t), raw |-> RawLength(t), len |-> StrippedLength(t),
     ind |-> indicator_count(t.lines), hdr |-> FALSE]

\* one call: the verdict, and whether the missing keywords were logged as a warning
CallValidateMarkdownContent ==
    /\ direct_call = NoDirectCall
    /\ \E t \in Texts :
         LET verdict == validate_markdown_content(Features(t)) IN
         direct_call' = [fn |-> "validate_markdown_content", args |-> t,
                         result |-> [verdict |-> verdict,
                                     warned |-> verdict = "ok" /\ ~t.keyword]]
    /\ UNCHANGED <<disk, manifest_file, saves, pc, runs, now, run_vars, exit_status,
                   saved_meta, trace, expect, same, written, deleted, fetch_call, warned>>

NextValidate == CallValidateMarkdownContent

SpecValidate == Init /\ [][NextValidate]_vars

-----------------------------------------------------------------------------
(* Direct calls of url_to_safe_filename *)

\* the paths of the calls: up to MaxPathLen characters of a name, a separator
\* or an underscore, followed by nothing, by the extension (once or twice), or
\* by the extension and a separator
PathChars == {"a", "/", "_"}
PathEndings == { <<>>, MD_SUFFIX, MD_SUFFIX \o MD_SUFFIX, MD_SUFFIX \o <<"/">> }
Paths ==
    { base \o ending :
        base \in UNION { [1..n -> PathChars] : n \in 0..MaxPathLen },
        ending \in PathEndings }

\* the (url_path, source, category) arguments of the calls
Triples ==
    [path : Paths, source : {SRC_CODE, SRC_PLATFORM}, category : {None, CAT_BWC, CAT_REF}]

CallUrlToSafeFilename ==
    /\ direct_call = NoDirectCall
    /\ \E t \in Triples :
         direct_call' = [fn |-> "url_to_safe_filename", args |-> t,
                         result |-> url_to_safe_filename(t.path, t.source, t.category)]
    /\ UNCHANGED <<disk, manifest_file, saves, pc, runs, now, run_vars, exit_status,
                   saved_meta, trace, expect, same, written, deleted, fetch_call, warned>>

NextNormalize == CallUrlToSafeFilename

SpecNormalize == Init /\ [][NextNormalize]_vars

-----------------------------------------------------------------------------
(* Direct calls of save_manifest: the repository and the ref of the environment *)

\* the characters \w matches among the ones used here: letters, digits, underscore
WORD_CHARS ==
    {"a", "b", "c", "d", "e", "f", "g", "h", "i", "j", "k", "l", "m", "n", "o", "p", "q",
     "r", "s", "t", "u", "v", "w", "x", "y", "z", "0", "1", "2", "3", "4", "5", "6", "7",
     "8", "9", "_"}

\* the character class [\w.-]
InClass(c) == c \in WORD_CHARS \cup {".", "-"}

\* [\w.-]+/[\w.-]+ over the whole of s
OwnerRepoForm(s) ==
    \E p \in 2..(Len(s) - 1) :
        /\ s[p] = "/"
        /\ \A i \in (1..Len(s)) \ {p} : InClass(s[i])

\* [\w.-]+ over the whole of s
RefForm(s) == Len(s) > 0 /\ \A i \in 1..Len(s) : InClass(s[i])

\* s without the newline it ends with, if it ends with one
BeforeFinalNewline(s) ==
    IF Len(s) > 0 /\ s[Len(s)] = "\n" THEN SubSeq(s, 1, Len(s) - 1) ELSE s

\* re.match(r'^[\w.-]+/[\w.-]+$', s): $ matches at the end of s and also just
\* before a newline that is the last character of s
re_match_repository(s) == OwnerRepoForm(s) \/ OwnerRepoForm(BeforeFinalNewline(s))

\* re.match(r'^[\w.-]+$', s), with the same $
re_match_ref(s) == RefForm(s) \/ RefForm(BeforeFinalNewline(s))

DEFAULT_REPOSITORY == 
    <<"k", "r", "e", "i", "t", "t", "e", "r", "/">>
    \o <<"c", "l", "a", "u", "d", "e", "-", "d", "o", "c", "s">>

DEFAULT_REF == <<"m", "a", "i", "n">>

BASE_URL_PREFIX ==
    <<"h", "t", "t", "p", "s", ":", "/", "/">>
    \o <<"r", "a", "w", ".", "g", "i", "t", "h", "u", "b", "u", "s", "e", "r">>
    \o <<"c", "o", "n", "t", "e", "n", "t", ".", "c", "o", "m", "/">>

BASE_URL_SUFFIX == <<"/", "d", "o", "c", "s", "/">>

\* the longest value of an environment variable
MaxEnvLen == 4

\* a word character, the separator of owner and repository, and a newline
EnvChars == {"a", "/", "\n"}

EnvStrings == UNION { [1..n -> EnvChars] : n \in 0..MaxEnvLen }

\* an environment variable: not set, or set to a string
EnvValues ==
    {[set |-> FALSE, value |-> <<>>]} \cup { [set |-> TRUE, value |-> v] : v \in EnvStrings }

Environments == [GITHUB_REPOSITORY : EnvValues, GITHUB_REF_NAME : EnvValues]

\* os.environ.get(name, default)
environ_get(variable, default) == IF variable.set THEN variable.value ELSE default

\* the repository save_manifest stores
github_repo_of(environ) ==
    LET github_repo == environ_get(environ.GITHUB_REPOSITORY, DEFAULT_REPOSITORY) IN
    IF ~re_match_repository(github_repo) THEN DEFAULT_REPOSITORY ELSE github_repo

\* the ref save_manifest stores
github_ref_of(environ) ==
    LET github_ref == environ_get(environ.GITHUB_REF_NAME, DEFAULT_REF) IN
    IF ~re_match_ref(github_ref) THEN DEFAULT_REF ELSE github_ref

\* the fields save_manifest derives from the environment and writes with the manifest
save_manifest(environ) ==
    LET github_repo == github_repo_of(environ)
        github_ref == github_ref_of(environ)
    IN  [base_url |-> BASE_URL_PREFIX \o github_repo \o <<"/">> \o github_ref
                          \o BASE_URL_SUFFIX,
         github_repository |-> github_repo,
         github_ref |-> github_ref]

CallSaveManifest ==
    /\ direct_call = NoDirectCall
    /\ \E environ \in Environments :
         direct_call' = [fn |-> "save_manifest", args |-> environ,
                         result |-> save_manifest(environ)]
    /\ UNCHANGED <<disk, manifest_file, saves, pc, runs, now, run_vars, exit_status,
                   saved_meta, trace, expect, same, written, deleted, fetch_call, warned>>

NextSave == CallSaveManifest

SpecSave == Init /\ [][NextSave]_vars

-----------------------------------------------------------------------------
(* migrate_filenames.py: the one-off migration of the document filenames.  *)
(* direct_call holds the script at work: args is what it found (the old    *)
(* manifest, an ordered dict, and the docs directory), result is where it  *)
(* stands (stage), the directory as it is now, the renames still to do,    *)
(* new_manifest_files, its counters and the files of the manifest on disk. *)

DOCS_BASE_URL ==
    <<"h", "t", "t", "p", "s", ":", "/", "/">>
    \o <<"d", "o", "c", "s", ".", "c", "l", "a", "u", "d", "e", ".", "c", "o", "m">>

EN_PREFIX == <<"/", "e", "n", "/">>

\* str.startswith
StartsWith(s, prefix) ==
    /\ Len(s) >= Len(prefix)
    /\ SubSeq(s, 1, Len(prefix)) = prefix

\* str.replace(sub, by) for a non-empty sub: every occurrence, left to right
RECURSIVE ReplaceAll(_, _, _)
ReplaceAll(s, sub, by) ==
    IF s = <<>> THEN <<>>
    ELSE IF StartsWith(s, sub)
         THEN by \o ReplaceAll(SubSeq(s, Len(sub) + 1, Len(s)), sub, by)
         ELSE <<Head(s)>> \o ReplaceAll(Tail(s), sub, by)

\* new_url_to_safe_filename, lines 18-39
new_url_to_safe_filename(url_path) ==
    LET path == IF StartsWith(url_path, EN_PREFIX)
                THEN SubSeq(url_path, Len(EN_PREFIX) + 1, Len(url_path))
                ELSE url_path
        safe_name == Replace(Strip(path, "/"), "/", <<"_", "_">>)
    IN  IF ~EndsWith(safe_name, MD_SUFFIX) THEN safe_name \o MD_SUFFIX ELSE safe_name

\* lines 69-75: the new filename of an entry of the old manifest
\* (file_data.get('original_url', '') is <<>> for an entry without the field)
new_filename_of(file_data) ==
    new_url_to_safe_filename(
        ReplaceAll(ReplaceAll(file_data.original_url, DOCS_BASE_URL, <<>>), MD_SUFFIX, <<>>))

\* entries of the old manifest
MaxOldEntries == 2

\* filenames of the old scheme and of the new one
OldFilenames ==
    { <<"e", "n", "_", "_", "a", ".", "m", "d">>,
      <<"a", ".", "m", "d">>,
      <<"e", "n", "_", "_", "b", ".", "m", "d">>,
      <<"b", ".", "m", "d">> }

\* original_url of an entry: a page with and without the language prefix,
\* another page, and an entry without the field
OriginalUrls ==
    { DOCS_BASE_URL \o <<"/", "e", "n", "/", "a">>,
      DOCS_BASE_URL \o <<"/", "a">>,
      DOCS_BASE_URL \o <<"/", "e", "n", "/", "b">>,
      <<>> }

\* an item of manifest['files'].items(): the key and its file_data
OldItems == [old_filename : OldFilenames, file_data : [original_url : OriginalUrls]]

\* manifest['files'] as json.load gives it: items in file order, keys distinct
OldManifests ==
    { items \in UNION { [1..n -> OldItems] : n \in 1..MaxOldEntries } :
        \A i, j \in 1..Len(items) :
            i # j => items[i].old_filename # items[j].old_filename }

\* the docs directory the script finds: some of the listed files exist; a file
\* is identified by the name it had then
OldDirs(items) ==
    { [f \in names |-> f] : names \in SUBSET { items[i].old_filename : i \in 1..Len(items) } }

\* lines 64-83: the renames collected by the loop, in order
renames_of(items, dir) ==
    LET Needed(item) == /\ item.old_filename # new_filename_of(item.file_data)
                        /\ item.old_filename \in DOMAIN dir
        needed == SelectSeq(items, Needed)
    IN  [i \in 1..Len(needed) |->
            [old_name |-> needed[i].old_filename,
             new_name |-> new_filename_of(needed[i].file_data)]]

\* lines 65-86: new_manifest_files after the loop (a later item replaces an
\* earlier one under the same key)
RECURSIVE new_manifest_files_of(_)
new_manifest_files_of(items) ==
    IF items = <<>> THEN [f \in {} |-> [original_url |-> <<>>]]
    ELSE LET n == Len(items)
             earlier == new_manifest_files_of(SubSeq(items, 1, n - 1))
             new_filename == new_filename_of(items[n].file_data)
         IN  [f \in DOMAIN earlier \cup {new_filename} |->
                 IF f = new_filename THEN items[n].file_data ELSE earlier[f]]

\* manifest['files'] of the old manifest as a dict
old_manifest_files(items) ==
    [f \in { items[i].old_filename : i \in 1..Len(items) } |->
        items[CHOOSE i \in 1..Len(items) : items[i].old_filename = f].file_data]

\* Path.rename on POSIX: the file takes the new name, replacing a file that has it
rename(dir, old_name, new_name) ==
    [f \in (DOMAIN dir \ {old_name}) \cup {new_name} |->
        IF f = new_name THEN dir[old_name] ELSE dir[f]]

Migrating == direct_call.fn = "migrate_filenames"

\* main, lines 52-94: load the manifest, calculate the renames, and return
\* when there are none
MigrationStart ==
    /\ direct_call = NoDirectCall
    /\ \E items \in OldManifests :
       \E dir \in OldDirs(items) :
         LET renames == renames_of(items, dir) IN
         direct_call' =
             [fn |-> "migrate_filenames",
              args |-> [manifest |-> items, dir |-> dir],
              result |-> [stage |-> IF renames = <<>> THEN "returned" ELSE "confirm",
                          dir |-> dir,
                          renames |-> renames,
                          new_manifest_files |-> new_manifest_files_of(items),
                          success |-> 0,
                          failed |-> 0,
                          manifest_files |-> old_manifest_files(items)]]
    /\ UNCHANGED <<disk, manifest_file, saves, pc, runs, now, run_vars, exit_status,
                   saved_meta, trace, expect, same, written, deleted, fetch_call, warned>>

\* main, lines 106-110: the answer to "Proceed with renaming? [y/N]"
MigrationConfirm ==
    /\ Migrating
    /\ direct_call.result.stage = "confirm"
    /\ \E response \in {"y", "n"} :
         direct_call' = [direct_call EXCEPT
             !.result.stage = IF response = "y" THEN "renaming" ELSE "cancelled"]
    /\ UNCHANGED <<disk, manifest_file, saves, pc, runs, now, run_vars, exit_status,
                   saved_meta, trace, expect, same, written, deleted, fetch_call, warned>>

\* main, lines 118-126: one iteration of the rename loop; rename raises when
\* the old file is no longer there, and may raise for a reason of the file
\* system (the except clause counts the failure and goes on)
MigrationRename ==
    /\ Migrating
    /\ direct_call.result.stage = "renaming"
    /\ direct_call.result.renames # <<>>
    /\ LET r == direct_call.result
           todo == Head(r.renames)
       IN \E raised \in IF todo.old_name \in DOMAIN r.dir THEN {FALSE, TRUE} ELSE {TRUE} :
            direct_call' = [direct_call EXCEPT
                !.result.renames = Tail(r.renames),
                !.result.dir = IF raised THEN r.dir
                               ELSE rename(r.dir, todo.old_name, todo.new_name),
                !.result.success = IF raised THEN r.success ELSE r.success + 1,
                !.result.failed = IF raised THEN r.failed + 1 ELSE r.failed]
    /\ UNCHANGED <<disk, manifest_file, saves, pc, runs, now, run_vars, exit_status,
                   saved_meta, trace, expect, same, written, deleted, fetch_call, warned>>

\* main, lines 133-151: the manifest is rewritten with new_manifest_files
MigrationUpdateManifest ==
    /\ Migrating
    /\ direct_call.result.stage = "renaming"
    /\ direct_call.result.renames = <<>>
    /\ direct_call' = [direct_call EXCEPT
           !.result.stage = "complete",
           !.result.manifest_files = direct_call.result.new_manifest_files]
    /\ UNCHANGED <<disk, manifest_file, saves, pc, runs, now, run_vars, exit_status,
                   saved_meta, trace, expect, same, written, deleted, fetch_call, warned>>

NextMigrate ==
    \/ MigrationStart
    \/ MigrationConfirm
    \/ MigrationRename
    \/ MigrationUpdateManifest

SpecMigrate == Init /\ [][NextMigrate]_vars

-----------------------------------------------------------------------------
(* What a run discovered and received, read from its history *)

Range(seq) == { seq[i] : i \in 1..Len(seq) }

\* filenames of the identities the discoveries of this run returned
DiscoveredFiles ==
    { FilenameOf(ident) : ident \in UNION { Range(trace[k].results) : k \in 1..Len(trace) } }

\* filenames of the identities this run deals with: the discovered ones and the changelog
RunFiles == DiscoveredFiles \cup {CHANGELOG_FILENAME}

\* the identities of source whose fetch this run has finished, in order
FetchedOf(source) ==
    LET evs == SelectSeq(trace, LAMBDA e : e.kind = "fetch" /\ e.source = source)
    IN  [i \in 1..Len(evs) |-> evs[i].ident]

\* what discovery of source returned in this run (nothing when it raised or did not happen)
DiscoveredOf(source) ==
    LET evs == SelectSeq(trace, LAMBDA e : e.kind = "discover" /\ e.source = source /\ e.ok)
    IN  IF evs = <<>> THEN <<>> ELSE evs[1].results

DiscoveryAttempted(source) ==
    \E k \in 1..Len(trace) : trace[k].kind = "discover" /\ trace[k].source = source

DiscoveryFailed(source) ==
    \E k \in 1..Len(trace) :
        trace[k].kind = "discover" /\ trace[k].source = source /\ ~trace[k].ok

\* the fetches of this run that failed, as failed_pages names them
FailedFetches ==
    LET evs == SelectSeq(trace, LAMBDA e : e.kind = "fetch" /\ ~e.ok)
    IN  [i \in 1..Len(evs) |-> [source |-> evs[i].source, page |-> evs[i].ident.page]]

\* the saved manifest agrees with the file f it lists
EntryMatchesDisk(f) ==
    f \in DOMAIN disk /\ sha256(disk[f]) = manifest_file.files[f].hash

-----------------------------------------------------------------------------
(* Claims *)

\* C1: hash integrity. After every completed run, for every entry of the saved
\* manifest the stored hash equals the SHA-256 of the file of that name on disk.
C1_HashIntegrity ==
    pc = "exited" =>
        \A f \in DOMAIN manifest_file.files :
            f \in DOMAIN disk => sha256(disk[f]) = manifest_file.files[f].hash

\* C2: convergence. A complete run that discovers and receives exactly what the
\* complete run before it did writes no document file, and every entry of the
\* manifest it saves keeps the last_updated of the manifest saved before.
C2_Convergence ==
    (pc = "exited" /\ same /\ expect = <<>>) =>
        /\ written = {}
        /\ \A f \in DOMAIN manifest_file.files :
              /\ f \in DOMAIN manifest
              /\ manifest_file.files[f].last_updated = manifest[f].last_updated

C4_OnlyUndiscoveredDeleted ==
    \A f \in deleted : f \in DOMAIN manifest /\ f \notin DiscoveredFiles

\* C5: a file of the docs directory whose name is not a key of the previous
\* manifest is never deleted by the run.
C5_ManualFilesPreserved ==
    [][\A f \in DOMAIN disk : f \notin DOMAIN manifest => f \in DOMAIN disk']_vars

C5_Witness ==
    /\ pc = "exited"
    /\ deleted # {}
    /\ \E f \in DOMAIN disk : f \notin DOMAIN manifest /\ f \notin written

\* C6: a run exits with status 1 exactly when it synced no identity successfully.
C6_ZeroSuccessExit ==
    pc = "exited" => (exit_status = 1 <=> successful = 0)

C6_Witness ==
    pc = "exited" /\ exit_status = 1 /\ successful = 0 /\ total_discovered > 0

\* C7: a failed identity never aborts the run. When the run ends, every
\* identity each discovery returned has been fetched, in order, the changelog
\* has been fetched once, and failed and failed_pages count and name exactly
\* the fetches that failed.
C7_FailureDoesNotAbort ==
    pc = "exited" =>
        /\ \A source \in {SRC_CODE, SRC_PLATFORM} : FetchedOf(source) = DiscoveredOf(source)
        /\ FetchedOf(SRC_CHANGELOG) = <<ChangelogIdentity>>
        /\ failed = Len(FailedFetches)
        /\ failed_pages = FailedFetches

C7_Witness ==
    /\ pc = "exited"
    /\ \E i, j, k \in 1..Len(trace) :
          /\ i < j /\ j < k
          /\ trace[i].kind = "fetch" /\ ~trace[i].ok
          /\ trace[j].kind = "fetch" /\ trace[j].ok /\ trace[j].source = trace[i].source
          /\ trace[k].kind = "fetch" /\ trace[k].ok /\ trace[k].source = SRC_CHANGELOG

\* C8: the sources are independent. When the run ends, discovery of both doc
\* sources and the changelog fetch have been attempted, and a source whose
\* link list could not be fetched has had no page fetched, while every
\* identity of the other source has.
C8_SourcesIndependent ==
    pc = "exited" =>
        /\ DiscoveryAttempted(SRC_CODE)
        /\ DiscoveryAttempted(SRC_PLATFORM)
        /\ Len(FetchedOf(SRC_CHANGELOG)) = 1
        /\ \A source \in {SRC_CODE, SRC_PLATFORM} :
              DiscoveryFailed(source) =>
                  /\ FetchedOf(source) = <<>>
                  /\ \A other \in {SRC_CODE, SRC_PLATFORM} \ {source} :
                        Len(FetchedOf(other)) = Len(DiscoveredOf(other))

C8_Witness ==
    /\ pc = "exited"
    /\ DiscoveryFailed(SRC_CODE)
    /\ DiscoveredOf(SRC_PLATFORM) # <<>>
    /\ FetchedOf(SRC_PLATFORM) = DiscoveredOf(SRC_PLATFORM)
    /\ successful = Len(DiscoveredOf(SRC_PLATFORM)) + 1

\* C9 as claimed: when a run is interrupted, every file the manifest on disk
\* lists exists and has the hash the manifest records.
C9_CrashConsistency ==
    pc = "crashed" => \A f \in DOMAIN manifest_file.files : EntryMatchesDisk(f)

\* C10 as claimed: a retrying fetch either returns (filename, content) or raises.
C10_ReturnsOrRaises ==
    fetch_call.fn # "" => fetch_call.result.kind \in {"return", "raise"}

\* the server answers k rate-limit responses and then a valid document
RateLimitedThenValid(outs, k) ==
    /\ \A i \in 1..k : outs[i].kind = "rate_limited"
    /\ outs[k + 1].kind = "ok"
    /\ validate_markdown_content(outs[k + 1].body) = "ok"

\* C11 as claimed: a fetch whose requests are answered by any number of 429
\* responses and then by a valid document returns that document.
C11_RateLimitNotCounted ==
    fetch_call.fn # "" =>
        \A k \in 0..MAX_RETRIES :
            RateLimitedThenValid(fetch_call.outs, k) =>
                /\ fetch_call.result.kind = "return"
                /\ fetch_call.result.content.id = fetch_call.outs[k + 1].body.id

\* the loop of a direct call gets as far as its request number j
Reaches(outs, j) == \A i \in 1..(j - 1) : outs[i].kind \in {"error", "rate_limited"}

\* C12: validation failure is terminal, transport failure is retried. When the
\* body of request j of fetch_markdown_content is rejected by the validator,
\* the call raises the ValueError after exactly j requests; when request j
\* fails in transport and attempts are left, a further request is issued, and
\* MAX_RETRIES transport failures end in the final Exception.
C12_ValidationTerminal ==
    fetch_call.fn = "fetch_markdown_content" =>
        LET outs == fetch_call.outs
            result == fetch_call.result
        IN  /\ \A j \in 1..MAX_RETRIES :
                  (/\ Reaches(outs, j)
                   /\ outs[j].kind = "ok"
                   /\ validate_markdown_content(outs[j].body) # "ok")
                  => /\ result.kind = "raise"
                     /\ result.exc = "ValueError"
                     /\ result.requests = j
            /\ \A j \in 1..(MAX_RETRIES - 1) :
                  (Reaches(outs, j) /\ outs[j].kind = "error") => result.requests > j
            /\ (\A i \in 1..MAX_RETRIES : outs[i].kind = "error")
                  => /\ result.kind = "raise"
                     /\ result.exc = "Exception"
                     /\ result.requests = MAX_RETRIES

C12_Witness ==
    /\ fetch_call.fn = "fetch_markdown_content"
    /\ fetch_call.outs[1].kind = "error"
    /\ fetch_call.outs[2].kind = "ok"
    /\ validate_markdown_content(fetch_call.outs[2].body) # "ok"
    /\ fetch_call.outs[3].kind = "ok"
    /\ validate_markdown_content(fetch_call.outs[3].body) = "ok"
    /\ fetch_call.result.kind = "raise"
    /\ fetch_call.result.requests = 2

\* C13 as claimed: url_to_safe_filename is injective. No triple other than the
\* one of the call is given the filename the call returned.
C13_Injective ==
    direct_call.fn = "url_to_safe_filename" =>
        \A t \in Triples :
            t # direct_call.args =>
                url_to_safe_filename(t.path, t.source, t.category) # direct_call.result

\* C14 as claimed: for every path x, x and x + ".md" are given the same
\* filename, and that filename ends in one ".md", not in two.
C14_SuffixStrippedAnyPath ==
    direct_call.fn = "url_to_safe_filename" =>
        LET t == direct_call.args IN
        /\ url_to_safe_filename(t.path \o MD_SUFFIX, t.source, t.category) = direct_call.result
        /\ EndsWith(direct_call.result, MD_SUFFIX)
        /\ ~EndsWith(direct_call.result, MD_SUFFIX \o MD_SUFFIX)

\* C14, amended: for every path x that does not itself end in ".md", x and
\* x + ".md" are given the same filename; it ends in ".md", and in ".md.md"
\* only when x without its outer separators ends in ".md".
C14_SuffixStripped ==
    (direct_call.fn = "url_to_safe_filename" /\ ~EndsWith(direct_call.args.path, MD_SUFFIX)) =>
        LET t == direct_call.args IN
        /\ url_to_safe_filename(t.path \o MD_SUFFIX, t.source, t.category) = direct_call.result
        /\ EndsWith(direct_call.result, MD_SUFFIX)
        /\ EndsWith(direct_call.result, MD_SUFFIX \o MD_SUFFIX)
              => EndsWith(Strip(t.path, "/"), MD_SUFFIX)

C14_Witness ==
    /\ direct_call.fn = "url_to_safe_filename"
    /\ direct_call.args = [path |-> <<"a", "/", "a">>, source |-> SRC_PLATFORM, category |-> None]
    /\ direct_call.result = SRC_PLATFORM \o <<"_", "_", "a", "_", "_", "a", ".", "m", "d">>
    /\ url_to_safe_filename(<<"a", "/", "a", ".", "m", "d">>, SRC_PLATFORM, None)
           = direct_call.result

\* the response body a fetched content was made of
BodyOf(content) == CHOOSE b \in Bodies \cup {EmptyText} : b.id = content.id

\* the changelog fetches of this run that were synced as successful
ChangelogSynced ==
    { k \in 1..Len(trace) :
        trace[k].kind = "fetch" /\ trace[k].source = SRC_CHANGELOG /\ trace[k].ok }

\* C15 as claimed: the changelog is validated like a page. A changelog
\* response that validate_markdown_content rejects (an empty body, an HTML
\* error page) is never synced: it is not counted as successful, not written
\* and not recorded in the new manifest.
C15_ChangelogValidated ==
    \A k \in ChangelogSynced :
        validate_markdown_content(BodyOf(trace[k].content)) = "ok"

\* every file of the docs directory has been written by a run
OnlyFilesOfRuns == \A f \in DOMAIN disk : disk[f] # ManualNote

\* C16: after a completed run, in a docs directory holding only files runs
\* have written, the document files on disk are exactly the keys of the saved
\* manifest: no orphan file, no entry without its file.
C16_FilesMatchManifest ==
    (pc = "exited" /\ OnlyFilesOfRuns) => DOMAIN disk = DOMAIN manifest_file.files

(* What a text handed to the validator holds, read from its description *)

\* the text is markdown or prose without any HTML in it
NoHtml(t) == t.start = "" /\ t.html_pos = 0

\* the distinct markdown indicators that occur in the text
AllIndicators(t) == UNION { t.lines[i].ind : i \in 1..Len(t.lines) }

\* the lines among the first 50 in which an indicator occurs
MarkedInPrefix(t) ==
    { i \in 1..Len(t.lines) : i <= SCANNED_LINES /\ t.lines[i].ind # {} }

\* the occurrences of indicators in the first 50 lines
RECURSIVE Occurrences(_, _)
Occurrences(t, i) ==
    IF i > Len(t.lines) \/ i > SCANNED_LINES THEN 0
    ELSE Cardinality(t.lines[i].ind) + Occurrences(t, i + 1)

UnknownPageFilenames ==
    { url_to_safe_filename(page, SRC_CODE, category) :
          page \in unknown_pages(CodeCatalogue), category \in {None, CAT_BWC, CAT_REF} }

\* the step is the per-identity block of a fetch, successful or not
FetchStep ==
    /\ Len(trace') = Len(trace) + 1
    /\ trace'[Len(trace')].kind = "fetch"

\* C19: unknown code pages are dropped. The discovery of the Claude Code
\* pages warns about each page name of the link list that is in neither
\* membership set and returns none of them; every code page that is fetched is
\* in one of the sets and carries the category of its set; and no file is
\* written and no manifest entry recorded under a filename of an unknown page.
C19_UnknownPagesDropped ==
    /\ [][warned' # {} =>
             /\ pc = "code_discover"
             /\ trace'[Len(trace')].kind = "discover"
             /\ trace'[Len(trace')].ok
             /\ docs' = trace'[Len(trace')].results
             /\ \A i \in 1..Len(docs') : docs'[i].page \notin warned'
             /\ total_discovered' = Len(docs')]_vars
    /\ [][(FetchStep /\ trace'[Len(trace')].source = SRC_CODE) =>
             LET ident == trace'[Len(trace')].ident IN
             /\ ident.page \notin unknown_pages(CodeCatalogue)
             /\ \/ ident.page \in BUILD_WITH_CLAUDE_CODE_PAGES /\ ident.category = CAT_BWC
                \/ ident.page \in REFERENCE_PAGES /\ ident.category = CAT_REF]_vars
    /\ [](\A filename \in UnknownPageFilenames :
             /\ filename \notin written
             /\ filename \notin DOMAIN new_manifest
             /\ filename \notin DOMAIN manifest_file.files)

\* the link list of a second run named an unknown page only: the discovery
\* has warned about it and returned no page
C19_Witness ==
    /\ pc = "platform_discover"
    /\ warned = {PAGE_unlisted}
    /\ trace = <<DiscoverEvent(SRC_CODE, TRUE, <<>>)>>
    /\ docs = <<>>
    /\ total_discovered = 0
    /\ url_to_safe_filename(PAGE_hooks, SRC_CODE, CAT_REF) \in DOMAIN manifest

\* C20: every manifest save_manifest writes has a github_repository of the
\* owner/repo form and a github_ref of the ref form; a value of the environment
\* that is not of its form is replaced by the default ('kreitter/claude-docs',
\* 'main'), and base_url is built from the two values written.
C20_EnvironmentValidated ==
    direct_call.fn = "save_manifest" =>
        LET environ == direct_call.args
            saved == direct_call.result
            repository == environ_get(environ.GITHUB_REPOSITORY, DEFAULT_REPOSITORY)
            ref == environ_get(environ.GITHUB_REF_NAME, DEFAULT_REF)
        IN  /\ OwnerRepoForm(saved.github_repository)
            /\ RefForm(saved.github_ref)
            /\ ~OwnerRepoForm(repository) => saved.github_repository = DEFAULT_REPOSITORY
            /\ ~RefForm(ref) => saved.github_ref = DEFAULT_REF
            /\ saved.base_url = BASE_URL_PREFIX \o saved.github_repository \o <<"/">>
                                    \o saved.github_ref \o BASE_URL_SUFFIX

\* sub occurs in s
Contains(s, sub) ==
    \E i \in 1..(Len(s) - Len(sub) + 1) : SubSeq(s, i, i + Len(sub) - 1) = sub

\* group 2 of the pattern of discover_platform_docs can be path: one character
\* or more, none of them a closing parenthesis, and then ".md"
PlatformPatternExtracts(path) ==
    /\ Len(path) > Len(MD_SUFFIX)
    /\ EndsWith(path, MD_SUFFIX)
    /\ \A i \in 1..Len(path) : path[i] # ")"

\* C21 as claimed: for every page path the platform discovery pattern can
\* extract, the filename of the page starts with "platform__", ends with
\* ".md", contains no path separator and no run of three underscores.
C21_PlatformFilenameFlat ==
    (/\ direct_call.fn = "url_to_safe_filename"
     /\ direct_call.args.source = SRC_PLATFORM
     /\ direct_call.args.category = None
     /\ PlatformPatternExtracts(direct_call.args.path))
    => /\ SubSeq(direct_call.result, 1, Len(SRC_PLATFORM) + 2) = SRC_PLATFORM \o <<"_", "_">>
       /\ EndsWith(direct_call.result, MD_SUFFIX)
       /\ ~Contains(direct_call.result, <<"/">>)
       /\ ~Contains(direct_call.result, <<"_", "_", "_">>)

\* the step is the per-identity block of a fetch that returned a content
SyncedStep ==
    /\ Len(trace') = Len(trace) + 1
    /\ trace'[Len(trace')].kind = "fetch"
    /\ trace'[Len(trace')].ok

\* C22: when an identity has been fetched and validated, its file is written
\* in that step exactly when the hash of the content differs from the hash the
\* previous manifest stores under its filename, or the previous manifest has
\* no such entry; then the new entry's last_updated is the current time.
\* Otherwise the docs directory is left as it is and the new entry carries the
\* previous entry's last_updated.  Either way the new entry records the hash
\* of the content.
C22_WrittenIffChanged ==
    [][SyncedStep =>
        LET e == trace'[Len(trace')]
            filename == FilenameOf(e.ident)
            differs == \/ filename \notin DOMAIN manifest
                       \/ manifest[filename].hash # sha256(e.content)
        IN  /\ differs => /\ disk' = write_text(disk, filename, e.content)
                          /\ written' = written \cup {filename}
                          /\ new_manifest'[filename].last_updated = now
            /\ ~differs => /\ disk' = disk
                           /\ written' = written
                           /\ new_manifest'[filename].last_updated
                                  = manifest[filename].last_updated
            /\ new_manifest'[filename].hash = sha256(e.content)]_vars

\* a second run has left one file alone, whose content came as before, and
\* has rewritten another, whose content came changed
C22_Witness ==
    /\ pc = "exited"
    /\ \E j, k \in 1..Len(trace) :
          LET f == FilenameOf(trace[j].ident)
              g == FilenameOf(trace[k].ident)
          IN  /\ trace[j].kind = "fetch" /\ trace[j].ok
              /\ trace[k].kind = "fetch" /\ trace[k].ok
              /\ f \in DOMAIN manifest /\ manifest[f].hash = sha256(trace[j].content)
              /\ f \notin written
              /\ manifest_file.files[f].last_updated < now
              /\ g \in DOMAIN manifest /\ manifest[g].hash # sha256(trace[k].content)
              /\ g \in written
              /\ manifest_file.files[g].last_updated = now

\* the positions of main() between the start of a run and its save_manifest
Running ==
    pc \in {"code_discover", "code_fetch", "platform_discover", "platform_fetch",
            "changelog", "cleanup"}

\* C23: within a run the manifest file is written exactly once. While the run
\* is at work it has not been written; the one write happens when every
\* identity the discoveries returned and the changelog have been fetched and
\* cleanup_old_files has visited every obsolete file, it writes the complete
\* new manifest, and after it the run fetches, writes and deletes nothing.
C23_ManifestSavedOnceAtEnd ==
    /\ [](/\ Running => saves = 0
          /\ pc = "exited" => saves = 1)
    /\ [][saves' # saves /\ runs' = runs =>
             /\ saves' = 1
             /\ pc = "cleanup" /\ pc' = "exited"
             /\ files_to_remove = {}
             /\ \A source \in {SRC_CODE, SRC_PLATFORM} :
                   FetchedOf(source) = DiscoveredOf(source)
             /\ FetchedOf(SRC_CHANGELOG) = <<ChangelogIdentity>>
             /\ manifest_file' = ManifestFileOf(new_manifest)
             /\ UNCHANGED <<disk, trace, written, deleted, new_manifest>>]_vars
    /\ [][manifest_file' # manifest_file => saves' = saves + 1]_vars
    /\ [][saves = 1 /\ runs' = runs => UNCHANGED <<disk, trace, written, deleted>>]_vars

\* a run that wrote files and pruned others has saved its manifest
C23_Witness ==
    /\ pc = "exited"
    /\ saves = 1
    /\ written # {}
    /\ deleted # {}
    /\ Len(FetchedOf(SRC_PLATFORM)) > 1
    /\ manifest_file.files = new_manifest
    /\ manifest_file.files # manifest

\* the server's answers to the requests the call issued
AnswersGot(call) == [i \in 1..call.result.requests |-> call.outs[i]]

\* C24: the retry loop is bounded. A fetch ends (it returns, raises or leaves
\* its loop) after at most MAX_RETRIES requests, whatever mix of failures, 429
\* responses and bodies the server answers with.  It backs off exactly after
\* each transport failure that a further request follows, so never after its
\* last request, for no longer than the doubled and capped delay.  (The wait a
\* 429 response asks for is slept after every 429, the last request included.)
C24_RetryBounded ==
    fetch_call.fn # "" =>
        LET result == fetch_call.result
            got == AnswersGot(fetch_call)
            sleeps == result.sleeps
        IN  /\ result.kind \in {"return", "raise", "none"}
            /\ result.requests \in 1..MAX_RETRIES
            /\ \A i \in 1..Len(sleeps) :
                  sleeps[i].kind = "backoff" =>
                      /\ sleeps[i].after < result.requests
                      /\ got[sleeps[i].after].kind = "error"
                      /\ sleeps[i].delay <= MAX_RETRY_DELAY
                      /\ sleeps[i].delay = RETRY_DELAY * Pow2(sleeps[i].after - 1)
            /\ \A j \in 1..(result.requests - 1) :
                  got[j].kind = "error" =>
                      \E i \in 1..Len(sleeps) :
                          sleeps[i].kind = "backoff" /\ sleeps[i].after = j
            /\ \A j \in 1..result.requests :
                  got[j].kind = "rate_limited" <=>
                      \E i \in 1..Len(sleeps) :
                          sleeps[i].kind = "rate_limit_wait" /\ sleeps[i].after = j

\* three transport failures: two backoffs, of 2 and 4 seconds, and the final Exception
C24_Witness ==
    /\ fetch_call.fn = "fetch_markdown_content"
    /\ \A i \in 1..MAX_RETRIES : fetch_call.outs[i].kind = "error"
    /\ fetch_call.result.kind = "raise"
    /\ fetch_call.result.requests = MAX_RETRIES
    /\ Len(fetch_call.result.sleeps) = MAX_RETRIES - 1
    /\ fetch_call.result.sleeps[2] = [kind |-> "backoff", after |-> 2, delay |-> 4]

\* the identity the entry of the previous manifest under f was recorded for
EntryIdentity(f) == Identity(manifest[f].source, manifest[f].page, manifest[f].category)

\* the fetch of ident failed in this run
FailedInRun(ident) ==
    \E k \in 1..Len(trace) : trace[k].kind = "fetch" /\ ~trace[k].ok /\ trace[k].ident = ident

\* ident is among the identities this run fetches: discovered, or the changelog
InRun(ident) ==
    \/ ident = ChangelogIdentity
    \/ \E source \in {SRC_CODE, SRC_PLATFORM} : ident \in Range(DiscoveredOf(source))

\* C25 as claimed: the keys of the saved manifest's files are the filenames
\* fetched and validated in this run, total_files is their number, and no
\* entry of the previous manifest whose identity failed or was not discovered
\* in this run appears in the saved manifest.
C25_NoStaleEntries ==
    pc = "exited" =>
        /\ DOMAIN manifest_file.files = fetched_files
        /\ saved_meta.total_files = Cardinality(DOMAIN manifest_file.files)
        /\ \A f \in DOMAIN manifest :
              (FailedInRun(EntryIdentity(f)) \/ ~InRun(EntryIdentity(f)))
                  => f \notin DOMAIN manifest_file.files

\* C26: reconciliation deletes the files of a source whose discovery failed.
\* When a run has ended in which the link list of a source could not be
\* fetched, every file the previous manifest lists for that source is absent
\* from the docs directory, deleted by this run if it was there, and absent
\* from the saved manifest.
C26_FailedDiscoveryPrunes ==
    pc = "exited" =>
        \A source \in {SRC_CODE, SRC_PLATFORM} :
            DiscoveryFailed(source) =>
                \A f \in DOMAIN manifest :
                    manifest[f].source = source =>
                        /\ f \notin DOMAIN disk
                        /\ f \notin DOMAIN manifest_file.files
                        /\ f \notin fetched_files
                        /\ files_to_remove = {}

\* the platform link list could not be fetched in a run that synced other
\* documents: the platform file of the run before is gone
C26_Witness ==
    /\ pc = "exited"
    /\ DiscoveryFailed(SRC_PLATFORM)
    /\ successful > 0
    /\ exit_status = 0
    /\ \E f \in deleted : manifest[f].source = SRC_PLATFORM /\ f \notin DOMAIN disk

\* load_manifest reads the file as an object that lists its files
Usable(mf) == mf.exists /\ mf.form = "object"

\* C27: load_manifest never fails the run. A run that starts with the
\* manifest file missing, not parseable or without the key "files" loads the
\* empty manifest; it then takes every identity it fetches for new, writes its
\* file and dates its entry with the current time, deletes nothing, and ends
\* by saving its new manifest as a run does.
C27_LoadManifestFallsBack ==
    /\ [][(runs' = runs + 1 /\ ~Usable(manifest_file)) =>
             /\ manifest' = EmptyMap
             /\ pc' = "code_discover"]_vars
    /\ []((Running /\ ~Usable(manifest_file)) =>
             /\ manifest = EmptyMap
             /\ written = fetched_files
             /\ deleted = {}
             /\ files_to_remove = {}
             /\ \A f \in DOMAIN new_manifest :
                   /\ new_manifest[f].last_updated = now
                   /\ f \in DOMAIN disk /\ sha256(disk[f]) = new_manifest[f].hash)
    /\ [][(pc = "cleanup" /\ pc' = "exited" /\ ~Usable(manifest_file)) =>
             /\ manifest_file' = ManifestFileOf(new_manifest)
             /\ exit_status' = exit_code(failed_pages, successful)
             /\ UNCHANGED disk]_vars

\* a run has received exactly what the run before it did, but the manifest
\* that run saved was cut short in between: the run has written every file anew
C27_Witness ==
    /\ pc = "cleanup"
    /\ manifest_file.form = "unparseable"
    /\ Cardinality(DOMAIN manifest_file.files) = 3
    /\ manifest = EmptyMap
    /\ same /\ expect = <<>>
    /\ Cardinality(written) = 3
    /\ \A f \in written : manifest_file.files[f].hash = new_manifest[f].hash

\* C28: the statistics of every saved manifest are consistent. The pages
\* fetched successfully and the pages failed add up to the pages discovered
\* and one, the changelog, which is attempted once and not counted as
\* discovered; failed_pages has one name for each failed page; and total_files
\* is at most the number of pages fetched successfully.
C28_StatisticsConsistent ==
    pc = "exited" =>
        /\ saved_meta.pages_fetched_successfully + saved_meta.pages_failed
               = saved_meta.total_pages_discovered + 1
        /\ Len(saved_meta.failed_pages) = saved_meta.pages_failed
        /\ saved_meta.total_files <= saved_meta.pages_fetched_successfully
        /\ saved_meta.total_pages_discovered
               = Len(DiscoveredOf(SRC_CODE)) + Len(DiscoveredOf(SRC_PLATFORM))

\* a run saved with a failed page and with two pages fetched successfully
\* into one file, so that total_files is less than the pages fetched
C28_Witness ==
    /\ pc = "exited"
    /\ saved_meta.pages_failed >= 1
    /\ Len(saved_meta.failed_pages) >= 1
    /\ saved_meta.total_files < saved_meta.pages_fetched_successfully

\* C29: a run that ends with no success at all still reconciles and saves
\* before it exits with status 1. Every file the previous manifest lists is
\* gone from the disk, the manifest it saves has no files, and so nothing of
\* the previously synced state is retained after a total failure.
C29_TotalFailureClearsState ==
    /\ []((pc = "exited" /\ successful = 0) =>
             /\ exit_status = 1
             /\ saves = 1
             /\ manifest_file = ManifestFileOf(EmptyMap)
             /\ \A f \in DOMAIN manifest : f \notin DOMAIN disk
             /\ deleted \subseteq DOMAIN manifest)
    /\ [][(pc = "cleanup" /\ pc' = "exited" /\ successful = 0) =>
             /\ files_to_remove = {}
             /\ \A f \in DOMAIN manifest : f \notin DOMAIN disk
             /\ manifest_file'.files = EmptyMap
             /\ exit_status' = 1
             /\ UNCHANGED disk]_vars

\* the second run failed everywhere after the first had synced documents:
\* their files were deleted and an empty manifest was saved
C29_Witness ==
    /\ pc = "exited"
    /\ runs = 2
    /\ successful = 0
    /\ exit_status = 1
    /\ Cardinality(DOMAIN manifest) >= 2
    /\ deleted = DOMAIN manifest
    /\ manifest_file.files = EmptyMap

\* C30: recovery after a crash. Whatever point an earlier run was interrupted
\* at, a later run that completes with both discoveries and every fetch
\* successful ends in a consistent state: every entry of the manifest it saves
\* has its file on disk, and the file has the hash the entry records.
C30_RecoveryConsistent ==
    (/\ pc = "exited"
     /\ failed = 0
     /\ ~DiscoveryFailed(SRC_CODE)
     /\ ~DiscoveryFailed(SRC_PLATFORM)) =>
        \A f \in DOMAIN manifest_file.files :
            /\ f \in DOMAIN disk
            /\ sha256(disk[f]) = manifest_file.files[f].hash

\* C31: after a confirmed run of the filename migration the manifest and the
\* disk agree. The rewritten manifest has one entry for each entry of the old
\* manifest, no two old entries ending up under one new key, and every entry
\* whose file existed under its old name before the migration names a file
\* that exists on disk under its new key.
C31_MigrationAgrees ==
    (Migrating /\ direct_call.result.stage = "complete") =>
        LET items == direct_call.args.manifest
            before == direct_call.args.dir
            result == direct_call.result
        IN  /\ Cardinality(DOMAIN result.manifest_files) = Len(items)
            /\ \A i \in 1..Len(items) :
                   items[i].old_filename \in DOMAIN before =>
                       /\ new_filename_of(items[i].file_data) \in DOMAIN result.manifest_files
                       /\ new_filename_of(items[i].file_data) \in DOMAIN result.dir

====
